---------------------------- MODULE Spec2Model ----------------------------
(***************************************************************************)
(* A model of rnnmorph's tagger orchestration (rnnmorph/model.py) and of   *)
(* the character-embedding bootstrap (rnnmorph/char_embeddings_model.py).  *)
(*                                                                         *)
(* The neural network itself is opaque: what model.predict returns is a    *)
(* nondeterministic choice of score vectors, and fit / save / load are     *)
(* recorded as events.                                                     *)
(***************************************************************************)
EXTENDS Integers, Sequences, FiniteSets

(***************************************************************************)
(* Bounds of the model.                                                    *)
(***************************************************************************)
MaxSplitSamples == 5    \* get_split called alone: sample_counter in 0..MaxSplitSamples

MaxSamples == 3         \* train: sentences in the corpus

MaxEpochs == 2          \* train: epochs_num in 1..MaxEpochs

MaxSentences == 2       \* predict: sentences in the batch

MaxSentenceLen == 3     \* predict: tokens in a sentence

NumClasses == 2         \* output classes are 0 (pad) and 1..NumClasses

MaxScore == 2           \* the model's scores are drawn from 1..MaxScore

MaxEvalTokens == 4      \* evaluate: positions of all batches together

MaxVocabulary == 2      \* get_char_model: words of the vocabulary

MaxWordChars == 3       \* get_char_model: characters of a word

MaxWordLength == 2      \* get_char_model: max_word_length in 1..MaxWordLength

MaxCalls == 4           \* calls that feed the built model

\* The words a sentence is made of; get_sample gives each a non-zero vector.
WordIds == {1, 2}

\* The values the training configuration is drawn from.
SentenceLengths == {1, 3}

DumpFreqs == {1, 2, 3}

TokenBudgets == {2, 3}

\* val_part as the decimal literal num/den.
ValParts == {[num |-> k, den |-> 10] : k \in 0..10}

TrainValParts == {[num |-> k, den |-> 10] : k \in {0, 2, 5, 10}}

(***************************************************************************)
(* Generic helpers.                                                        *)
(***************************************************************************)
Min(a, b) == IF a <= b THEN a ELSE b

Max(a, b) == IF a >= b THEN a ELSE b

Range(s) == {s[i] : i \in 1..Len(s)}

RECURSIVE SeqSum(_)
SeqSum(s) == IF s = <<>> THEN 0 ELSE Head(s) + SeqSum(Tail(s))

\* s[from:] of Python for 0 <= from.
Drop(s, k) == SubSeq(s, Min(k, Len(s)) + 1, Len(s))

\* s[:k] of Python for 0 <= k.
Take(s, k) == SubSeq(s, 1, Min(k, Len(s)))

(***************************************************************************)
(* Python floats are IEEE-754 binary64.  A non-negative value is held      *)
(* exactly as [m |-> bits, e |-> k]: the bits of an integer, most          *)
(* significant first and without leading zeros, scaled by 2^-k.  Every     *)
(* arithmetic result is rounded to MantissaBits significant bits, to       *)
(* nearest, ties to even.                                                  *)
(***************************************************************************)
MantissaBits == 53

\* bits without its leading zeros.
StripZeros(bits) ==
    LET ones == {i \in 1..Len(bits) : bits[i] = 1}
    IN  IF ones = {} THEN <<>>
        ELSE SubSeq(bits, CHOOSE i \in ones : \A j \in ones : i <= j, Len(bits))

\* bits + 1.
BitsInc(bits) ==
    LET zeros == {i \in 1..Len(bits) : bits[i] = 0}
    IN  IF zeros = {} THEN <<1>> \o [i \in 1..Len(bits) |-> 0]
        ELSE LET z == CHOOSE i \in zeros : \A j \in zeros : j <= i
             IN  [i \in 1..Len(bits) |->
                     IF i < z THEN bits[i] ELSE IF i = z THEN 1 ELSE 0]

\* a + b, by carry look-ahead: a carry enters position i when some lower
\* position generates one and every position in between passes it on.
BitsAdd(a, b) ==
    LET n  == Max(Len(a), Len(b)) + 1
        x  == [i \in 1..(n - Len(a)) |-> 0] \o a
        y  == [i \in 1..(n - Len(b)) |-> 0] \o b
        carry(i) == \E j \in (i + 1)..n :
                        /\ x[j] = 1 /\ y[j] = 1
                        /\ \A k \in (i + 1)..(j - 1) : x[k] + y[k] = 1
    IN  StripZeros([i \in 1..n |->
                       (x[i] + y[i] + (IF carry(i) THEN 1 ELSE 0)) % 2])

RECURSIVE BitsToNat(_)
BitsToNat(bits) ==
    IF bits = <<>> THEN 0
    ELSE 2 * BitsToNat(SubSeq(bits, 1, Len(bits) - 1)) + bits[Len(bits)]

RECURSIVE NatToBits(_)
NatToBits(n) == IF n = 0 THEN <<>> ELSE Append(NatToBits(n \div 2), n % 2)

\* Round the value bits * 2^-e (plus, when sticky, a nonzero amount below its
\* last bit) to MantissaBits significant bits.
RoundDouble(bits, e, sticky) ==
    LET m == StripZeros(bits)
        n == Len(m)
    IN  IF n <= MantissaBits THEN [m |-> m, e |-> e]
        ELSE LET keep  == SubSeq(m, 1, MantissaBits)
                 guard == m[MantissaBits + 1]
                 rest  == sticky \/ \E i \in (MantissaBits + 2)..n : m[i] = 1
                 up    == guard = 1 /\ (rest \/ keep[MantissaBits] = 1)
             IN  [m |-> IF up THEN BitsInc(keep) ELSE keep,
                  e |-> e - (n - MantissaBits)]

\* 2^k mod q.
RECURSIVE Pow2Mod(_, _)
Pow2Mod(k, q) ==
    IF k = 0 THEN 1 % q
    ELSE LET h == Pow2Mod(k \div 2, q)
         IN  (((h * h) % q) * (IF k % 2 = 1 THEN 2 ELSE 1)) % q

\* The k-th binary digit after the point of r/q (r < q), and what is left of
\* r/q below it.
FracRem(r, q, k) == (r * Pow2Mod(k, q)) % q

FracBit(r, q, k) == (2 * FracRem(r, q, k - 1)) \div q

\* The float nearest to the decimal literal num/den (0 <= num <= den, so the
\* first binary digit that is set is among the first den after the point).
RatioToDouble(num, den) ==
    LET ip    == NatToBits(num \div den)
        r     == num % den
        first == IF ip # <<>> THEN 0
                 ELSE CHOOSE k \in 1..den :
                          /\ FracBit(r, den, k) = 1
                          /\ \A j \in 1..(k - 1) : FracBit(r, den, j) = 0
        last  == first + MantissaBits - Len(ip)
    IN  IF r = 0 THEN [m |-> ip, e |-> 0]
        ELSE RoundDouble(ip \o [k \in 1..last |-> FracBit(r, den, k)], last,
                         FracRem(r, den, last) # 0)

\* 1 - x in float arithmetic, for 0 <= x <= 1.
OneMinus(x) ==
    IF x.m = <<>> THEN [m |-> <<1>>, e |-> 0]
    ELSE LET pad  == [i \in 1..(x.e - Len(x.m)) |-> 0] \o x.m
             inv  == [i \in 1..Len(pad) |-> 1 - pad[i]]
             diff == IF x.e = 0 THEN <<>> ELSE BitsInc(inv)
         IN  RoundDouble(diff, x.e, FALSE)

\* The bits of n * bits.
RECURSIVE BitsTimes(_, _)
BitsTimes(n, bits) ==
    IF n = 0 THEN <<>>
    ELSE BitsAdd(Append(BitsTimes(n \div 2, bits), 0),
                 IF n % 2 = 1 THEN bits ELSE <<>>)

\* n * x in float arithmetic, n a small natural number.
TimesDouble(n, x) == RoundDouble(BitsTimes(n, x.m), x.e, FALSE)

\* int(x): truncation towards zero.
TruncDouble(x) ==
    IF Len(x.m) <= x.e THEN 0 ELSE BitsToNat(SubSeq(x.m, 1, Len(x.m) - x.e))


(***************************************************************************)
(* State.  One top-level call is modelled at a time; pc is its position.   *)
(***************************************************************************)
VARIABLES
    pc,                 \* position in the modelled call
    \* --- LSTMMorphoAnalysis.train / get_split -----------------------------
    corpus,             \* sentence i of the files (0-based) has corpus[i+1] tokens
    train_config,       \* epochs_num, dump_model_freq, num_words_in_batch, val_part
    sample_counter,
    train_idx,
    val_idx,
    big_epoch,
    batch_generator,    \* the batches the generator has still to yield
    epoch,              \* enumerate() index of the batch within the big epoch
    log,                \* what train has called so far, in order
    \* --- predict_proba / predict -----------------------------------------
    sentences,          \* the batch: each sentence a sequence of words
    grammemes,          \* the padded input tensor (chars is filled alike)
    proba,              \* what predict_proba returned
    sentence_i,         \* predict: the sentence of the zip loop
    probs_left,         \* predict: probs[-len(sentence):] still to decode
    grammeme_probs,     \* predict: the score vector read last
    answer,
    answers,
    \* --- evaluate -------------------------------------------------------
    y_batches,          \* gold classes: batches of left-padded sentences
    batch_k,            \* the batch of the generator loop
    predicted_y,        \* the arg-max classes of the network's output for it
    row_i,              \* the sentence of the batch
    word_count,
    word_errors,
    sentence_count,
    sentence_errors,
    scored,             \* the sentences scored so far: gold and arg-max classes
    \* --- get_char_model -------------------------------------------------
    char_paths,         \* which of model_config_path, model_weights_path is given
    config_file,        \* the contents written to the path, oldest first
    weights_file,
    vocabulary,         \* the words, most frequent first
    embeddings_rows,    \* embeddings.shape[0]
    max_word_length,
    char_calls,         \* what get_char_model has called so far, in order
    chars,              \* the matrix prepare_words returned
    \* --- build and the inputs fed to the model ---------------------------
    build_config,       \* use_word_embeddings, use_gram, use_chars
    word_embeddings,    \* TRUE when build is given a matrix, FALSE for None
    model_inputs,       \* the inputs the built model declares, in order
    fed                 \* the input lists passed to the model so far

trainVars == <<corpus, train_config, sample_counter, train_idx, val_idx,
               big_epoch, batch_generator, epoch, log>>

predictVars == <<sentences, grammemes, proba, sentence_i, probs_left,
                 grammeme_probs, answer, answers>>

evaluateVars == <<y_batches, batch_k, predicted_y, row_i, word_count, word_errors,
                  sentence_count, sentence_errors, scored>>

charVars == <<char_paths, config_file, weights_file, vocabulary,
              embeddings_rows, max_word_length, char_calls, chars>>

inputVars == <<build_config, word_embeddings, model_inputs, fed>>

vars == <<pc, trainVars, predictVars, evaluateVars, charVars, inputVars>>

NoConfig == [epochs_num |-> 0, dump_model_freq |-> 1, num_words_in_batch |-> 1,
             val_part |-> [num |-> 0, den |-> 1]]

(***************************************************************************)
(* get_split (model.py 193-205).                                           *)
(***************************************************************************)
\* np.random.permutation(n): any ordering of 0..n-1.
Permutations(n) ==
    {p \in [1..n -> 0..(n - 1)] : \A i, j \in 1..n : i # j => p[i] # p[j]}

\* border = int(sample_counter * (1 - val_part)), in float arithmetic.
SplitBorder(n, v) ==
    TruncDouble(TimesDouble(n, OneMinus(RatioToDouble(v.num, v.den))))

SplitTrain(perm, border) == Take(perm, border)

SplitVal(perm, border) == Drop(perm, border)

\* get_split(n, v) may return <<tr, va>>.
GetSplit(n, v, tr, va) ==
    \E perm \in Permutations(n) :
        /\ tr = SplitTrain(perm, SplitBorder(n, v))
        /\ va = SplitVal(perm, SplitBorder(n, v))

(***************************************************************************)
(* BatchGenerator (rnnmorph/batch_generator.py is not part of the sources; *)
(* this follows the design document): the sentences whose index is in      *)
(* `indices`, in file order, grouped while sentences x longest sentence    *)
(* stays within the token budget.  A sentence longer than the budget is a  *)
(* batch of its own.  A batch is the sequence of its sentence indices.     *)
(***************************************************************************)
BatchMaxLen(batch) ==
    IF batch = <<>> THEN 0
    ELSE CHOOSE l \in {corpus[i + 1] : i \in Range(batch)} :
             \A i \in Range(batch) : corpus[i + 1] <= l

RECURSIVE Group(_, _, _, _)
Group(i, indices, budget, group) ==
    IF i >= Len(corpus) THEN (IF group = <<>> THEN <<>> ELSE <<group>>)
    ELSE IF i \notin indices THEN Group(i + 1, indices, budget, group)
    ELSE IF group # <<>> /\
            (Len(group) + 1) * Max(BatchMaxLen(group), corpus[i + 1]) > budget
         THEN <<group>> \o Group(i + 1, indices, budget, <<i>>)
         ELSE Group(i + 1, indices, budget, Append(group, i))

BatchGenerator(indices, budget) == Group(0, Range(indices), budget, <<>>)

(***************************************************************************)
(* train (model.py 142-175).                                               *)
(***************************************************************************)
Event(op, indices, max_len, batch_size) ==
    [op |-> op, big_epoch |-> big_epoch, epoch |-> epoch, indices |-> indices,
     max_sentence_length |-> max_len, batch_size |-> batch_size]

\* count_samples: one per sentence-ending blank line.
CountSamples == Len(corpus)

\* What the training generator would get were the two index arrays swapped.
TrainGeneratorIndicesSwapped == val_idx

\* The index array handed to the training BatchGenerator (line 154) and to
\* evaluate (line 172).
TrainGeneratorIndices == train_idx

EvaluateIndices == val_idx

\* batch_size = num_words_in_batch // max_sentence_length (line 159).
FitBatchSize(budget, max_len) == budget \div max_len

\* The dump condition of line 168.
DumpNow(e, freq) == e # 0 /\ e % freq = 0

\* Lines 143-145.
TrainSplit ==
    /\ pc = "train"
    /\ sample_counter' = CountSamples
    /\ GetSplit(CountSamples, train_config.val_part, train_idx', val_idx')
    /\ big_epoch' = 0
    /\ log' = Append(log, Event("get_split", <<>>, 0, 0))
    /\ pc' = "big_epoch"
    /\ UNCHANGED <<corpus, train_config, batch_generator, epoch>>
    /\ UNCHANGED <<predictVars, evaluateVars, charVars, inputVars>>

\* Lines 146-156: the head of the big-epoch loop builds a fresh generator.
TrainBigEpoch ==
    /\ pc = "big_epoch"
    /\ big_epoch < train_config.epochs_num
    /\ batch_generator' = BatchGenerator(TrainGeneratorIndices,
                                         train_config.num_words_in_batch)
    /\ epoch' = 0
    /\ log' = Append(log, [Event("BatchGenerator", TrainGeneratorIndices, 0, 0)
                              EXCEPT !.epoch = 0])
    /\ pc' = "batch"
    /\ UNCHANGED <<corpus, train_config, sample_counter, train_idx, val_idx,
                   big_epoch>>
    /\ UNCHANGED <<predictVars, evaluateVars, charVars, inputVars>>

TrainReturn ==
    /\ pc = "big_epoch"
    /\ big_epoch >= train_config.epochs_num
    /\ pc' = "done"
    /\ UNCHANGED trainVars
    /\ UNCHANGED <<predictVars, evaluateVars, charVars, inputVars>>

\* Lines 157-167: the next batch is fitted.
TrainFit ==
    /\ pc = "batch"
    /\ batch_generator # <<>>
    /\ LET batch   == Head(batch_generator)
           max_len == BatchMaxLen(batch)
       IN  log' = Append(log, Event("fit", batch, max_len,
                   FitBatchSize(train_config.num_words_in_batch, max_len)))
    /\ batch_generator' = Tail(batch_generator)
    /\ \/ pc' = "dump"
       \* What Keras does with batch_size = 0 is not this program's code: it may
       \* also raise.
       \/ /\ FitBatchSize(train_config.num_words_in_batch,
                          BatchMaxLen(Head(batch_generator))) = 0
          /\ pc' = "error"
    /\ UNCHANGED <<corpus, train_config, sample_counter, train_idx, val_idx,
                   big_epoch, epoch>>
    /\ UNCHANGED <<predictVars, evaluateVars, charVars, inputVars>>

\* Lines 168-169, and the step of enumerate().
TrainDump ==
    /\ pc = "dump"
    /\ log' = IF DumpNow(epoch, train_config.dump_model_freq)
              THEN Append(log, Event("save", <<>>, 0, 0))
              ELSE log
    /\ epoch' = epoch + 1
    /\ pc' = "batch"
    /\ UNCHANGED <<corpus, train_config, sample_counter, train_idx, val_idx,
                   big_epoch, batch_generator>>
    /\ UNCHANGED <<predictVars, evaluateVars, charVars, inputVars>>

\* Tokens scored by the evaluate call of train when every token of the corpus
\* has a real (non-zero) gold class.
ValWordCount == SeqSum([k \in 1..Len(val_idx) |-> corpus[val_idx[k] + 1]])

\* Lines 170-175: evaluate ends in 1.0 - float(word_errors) / word_count
\* (line 250), which raises ZeroDivisionError when nothing was scored; it
\* unpacks each batch into three tensors (line 228) where train unpacks four
\* (line 157), so that it may raise on its first batch as well.
TrainEvaluate ==
    /\ pc = "batch"
    /\ batch_generator = <<>>
    /\ log' = Append(log, Event("evaluate", EvaluateIndices, 0, 0))
    /\ IF ValWordCount = 0
       THEN pc' = "error" /\ UNCHANGED big_epoch
       ELSE \/ pc' = "big_epoch" /\ big_epoch' = big_epoch + 1
            \/ pc' = "error" /\ UNCHANGED big_epoch
    /\ UNCHANGED <<corpus, train_config, sample_counter, train_idx, val_idx,
                   batch_generator, epoch>>
    /\ UNCHANGED <<predictVars, evaluateVars, charVars, inputVars>>


(***************************************************************************)
(* predict_proba and predict (model.py, lines 253-293).  A sentence is a   *)
(* sequence of words.  The network is opaque: its output tensor has one    *)
(* probability vector per position of the padded input, and the value of   *)
(* a vector is chosen when the vector is read.                             *)
(***************************************************************************)
Zeros(k) == [j \in 1..k |-> 0]

SentenceSet == UNION {[1..l -> WordIds] : l \in 0..MaxSentenceLen}

SentenceBatches == UNION {[1..n -> SentenceSet] : n \in 0..MaxSentences}

\* Line 261, for a batch with at least one sentence.
max_sentence_len(sents) ==
    CHOOSE l \in {Len(sents[i]) : i \in 1..Len(sents)} :
        \A i \in 1..Len(sents) : Len(sents[i]) <= l

\* s[-k:] of Python for 0 <= k: -0 is 0, so that k = 0 selects all of s.
PySuffix(s, k) == IF k = 0 THEN s ELSE Drop(s, Len(s) - Min(k, Len(s)))

\* Lines 263 and 275: row i of the input tensor, zero but for the slice
\* [-len(sentence):], which receives one non-zero entry per word.
PadRow(sentence, L) == Zeros(L - Len(sentence)) \o sentence

\* Line 261 raises ValueError for max() of no sentences; line 275 raises for
\* an empty sentence next to a longer one, where [-0:] is the whole row and
\* no vector is there to fill it.
PredictProbaRaises(sents) ==
    \/ sents = <<>>
    \/ \E i \in 1..Len(sents) :
           Len(sents[i]) = 0 /\ max_sentence_len(sents) > 0

\* What a row without its padding prefix would be.
ProbaRowStripped(sentence, L) ==
    [j \in 1..Len(sentence) |-> L - Len(sentence) + j]

\* Line 278: the output of model.predict is returned as it is, one vector
\* per position of the padded row; a vector is named by its position.
ProbaRow(sentence, L) == [j \in 1..L |-> j]

\* Lines 261-278.  A batch of empty sentences gives tensors without
\* positions, on which the network either answers or raises.
PredictProba(return_pc) ==
    IF PredictProbaRaises(sentences)
    THEN /\ pc' = "error"
         /\ UNCHANGED <<grammemes, proba>>
    ELSE LET L == max_sentence_len(sentences)
         IN  /\ grammemes' = [i \in 1..Len(sentences) |->
                                 PadRow(sentences[i], L)]
             /\ proba' = [i \in 1..Len(sentences) |->
                             ProbaRow(sentences[i], L)]
             /\ \/ pc' = return_pc
                \/ L = 0 /\ pc' = "error"

PredictProbaCall ==
    /\ pc = "predict_proba"
    /\ PredictProba("proba_returned")
    /\ UNCHANGED <<sentences, sentence_i, probs_left, grammeme_probs,
                   answer, answers>>
    /\ UNCHANGED <<trainVars, evaluateVars, charVars, inputVars>>

ScoreVectors == [1..(NumClasses + 1) -> 1..MaxScore]

\* np.argmax: the 0-based index of the first maximum.
ArgMax(v) ==
    (CHOOSE k \in 1..Len(v) :
        /\ \A j \in 1..Len(v) : v[j] <= v[k]
        /\ \A j \in 1..(k - 1) : v[j] < v[k]) - 1

\* Lines 286-287: answers = [] and the call of predict_proba.
PredictCall ==
    /\ pc = "predict"
    /\ PredictProba("zip")
    /\ answers' = <<>>
    /\ sentence_i' = 1
    /\ UNCHANGED <<sentences, probs_left, grammeme_probs, answer>>
    /\ UNCHANGED <<trainVars, evaluateVars, charVars, inputVars>>

\* Lines 287-289: the next pair of zip(sentences, probs).
PredictSentence ==
    /\ pc = "zip"
    /\ sentence_i <= Min(Len(sentences), Len(proba))
    /\ answer' = <<>>
    /\ probs_left' = PySuffix(proba[sentence_i], Len(sentences[sentence_i]))
    /\ pc' = "tokens"
    /\ UNCHANGED <<sentences, grammemes, proba, sentence_i, grammeme_probs,
                   answers>>
    /\ UNCHANGED <<trainVars, evaluateVars, charVars, inputVars>>

\* Lines 289-291.
PredictToken ==
    /\ pc = "tokens"
    /\ probs_left # <<>>
    /\ \E v \in ScoreVectors :
           /\ grammeme_probs' = v
           /\ answer' = Append(answer, ArgMax(Drop(v, 1)))
    /\ probs_left' = Tail(probs_left)
    /\ UNCHANGED <<pc, sentences, grammemes, proba, sentence_i, answers>>
    /\ UNCHANGED <<trainVars, evaluateVars, charVars, inputVars>>

\* Line 292.
PredictAppend ==
    /\ pc = "tokens"
    /\ probs_left = <<>>
    /\ answers' = Append(answers, answer)
    /\ sentence_i' = sentence_i + 1
    /\ pc' = "zip"
    /\ UNCHANGED <<sentences, grammemes, proba, probs_left, grammeme_probs,
                   answer>>
    /\ UNCHANGED <<trainVars, evaluateVars, charVars, inputVars>>

\* Line 293.
PredictReturn ==
    /\ pc = "zip"
    /\ sentence_i > Min(Len(sentences), Len(proba))
    /\ pc' = "predict_returned"
    /\ UNCHANGED predictVars
    /\ UNCHANGED <<trainVars, evaluateVars, charVars, inputVars>>

(***************************************************************************)
(* evaluate (model.py, lines 207-251).  y_batches holds the gold classes   *)
(* of the batches the generator yields: a batch is rectangular, and pad    *)
(* positions carry class 0.  Of the network's output only the arg-max of   *)
(* each position is kept.                                                  *)
(***************************************************************************)
GoldClasses == 0..NumClasses

\* Rectangular batches of n sentences with L positions each.
GoldBatches(tokens) ==
    UNION {[1..n -> [1..L -> GoldClasses]] :
              <<n, L>> \in {s \in (1..MaxSentences) \X (1..MaxSentenceLen) :
                               s[1] * s[2] <= tokens}}

GoldInputs ==
    {<<>>} \cup {<<b>> : b \in GoldBatches(MaxEvalTokens)}
           \cup {<<b1, b2>> : b1 \in GoldBatches(MaxEvalTokens - 1),
                              b2 \in GoldBatches(MaxEvalTokens - 1)}

\* Line 238: np.argmax over the whole vector, class 0 included.
TopClasses == {ArgMax(v) : v \in ScoreVectors}

\* Line 234: num == [0] holds for every position whose gold class is 0,
\* wherever it stands in the sentence.
CountZero(sentence) == Cardinality({j \in 1..Len(sentence) : sentence[j] = 0})

\* Lines 235-240: the pairs of zip(real_sentence_tags, answer).
ScoredPositions(sentence) == (CountZero(sentence) + 1)..Len(sentence)

\* Lines 241-245.
Mismatches(sentence, predicted) ==
    {j \in ScoredPositions(sentence) : sentence[j] # predicted[j]}

\* Lines 228-231: the next batch and the network's output for it.
EvaluateBatch ==
    /\ pc = "evaluate"
    /\ batch_k < Len(y_batches)
    /\ batch_k' = batch_k + 1
    /\ predicted_y' \in [1..Len(y_batches[batch_k + 1]) ->
                            [1..Len(y_batches[batch_k + 1][1]) -> TopClasses]]
    /\ row_i' = 1
    /\ pc' = "sentence"
    /\ UNCHANGED <<y_batches, word_count, word_errors, sentence_count,
                   sentence_errors, scored>>
    /\ UNCHANGED <<trainVars, predictVars, charVars, inputVars>>

\* Lines 232-248 for one sentence of the batch.
EvaluateSentence ==
    /\ pc = "sentence"
    /\ LET y == y_batches[batch_k]
           sentence == y[row_i]
           wrong == Mismatches(sentence, predicted_y[row_i])
       IN  /\ word_count' = word_count + Cardinality(ScoredPositions(sentence))
           /\ word_errors' = word_errors + Cardinality(wrong)
           /\ sentence_count' = sentence_count + 1
           /\ sentence_errors' = sentence_errors + (IF wrong # {} THEN 1 ELSE 0)
           /\ scored' = Append(scored, [gold |-> sentence,
                                        predicted |-> predicted_y[row_i]])
           /\ IF row_i < Len(y)
              THEN row_i' = row_i + 1 /\ pc' = "sentence"
              ELSE row_i' = 0 /\ pc' = "evaluate"
    /\ UNCHANGED <<y_batches, batch_k, predicted_y>>
    /\ UNCHANGED <<trainVars, predictVars, charVars, inputVars>>

\* Lines 250-251: the division raises ZeroDivisionError when no position
\* was scored.
EvaluateReport ==
    /\ pc = "evaluate"
    /\ batch_k = Len(y_batches)
    /\ pc' = IF word_count = 0 THEN "error" ELSE "evaluate_returned"
    /\ UNCHANGED evaluateVars
    /\ UNCHANGED <<trainVars, predictVars, charVars, inputVars>>

(***************************************************************************)
(* get_char_model and prepare_words (char_embeddings_model.py, lines       *)
(* 96-141).  A file is the sequence of the contents written to its path:   *)
(* <<>> when it does not exist, <<"old">> when it exists before the call.  *)
(***************************************************************************)
CHAR_SET == <<"a", "b">>

Alphabet == {"a", "b", "#"}

Words == UNION {[1..l -> Alphabet] : l \in 0..MaxWordChars}

Vocabularies == UNION {[1..n -> Words] : n \in 0..MaxVocabulary}

\* os.path.exists
Exists(file) == file # <<>>

\* vocabulary.shrink(n): the n most frequent words.
Shrink(words, n) == Take(words, n)

\* Line 103: CHAR_SET.index(ch) if ch in CHAR_SET else len(CHAR_SET).
CharIndex(ch) ==
    IF \E k \in 1..Len(CHAR_SET) : CHAR_SET[k] = ch
    THEN (CHOOSE k \in 1..Len(CHAR_SET) : CHAR_SET[k] = ch) - 1
    ELSE Len(CHAR_SET)

\* Line 103: the indices of the characters, cut with [:max_word_length].
WordCharIndices(word, mwl) ==
    Take([j \in 1..Len(word) |-> CharIndex(word[j])], mwl)

\* Line 104: the slice [-min(len(word), max_word_length):] is the whole row
\* for an empty word, and numpy refuses to fill it with no values.
PrepareWordRaises(word, mwl) == Min(Len(word), mwl) = 0 /\ mwl > 0

\* Lines 98 and 104: a row of zeros whose tail receives the indices.
PrepareWord(word, mwl) ==
    LET word_char_indices == WordCharIndices(word, mwl)
    IN  Zeros(mwl - Len(word_char_indices)) \o word_char_indices

\* Lines 97-105.
PrepareWordsRaises(words, mwl) ==
    \E i \in 1..Len(words) : PrepareWordRaises(words[i], mwl)

PrepareWords(words, mwl) ==
    [i \in 1..Len(words) |-> PrepareWord(words[i], mwl)]

\* Lines 67-71: the frozen softmax layer has vocabulary_size units and is
\* given the embeddings as its weights, which Keras refuses unless the
\* embeddings have that many rows.
BuildRaises(vocabulary_size, rows) == vocabulary_size # rows

\* Lines 47-50.
Save(file) == Append(file, "saved")

\* Line 127.
ConfigFound == char_paths.config /\ Exists(config_file)

\* Line 128.
WeightsFound == char_paths.weights /\ Exists(weights_file)

\* Lines 126-141.
GetCharModel ==
    /\ pc = "get_char_model"
    /\ IF ConfigFound
       THEN /\ IF WeightsFound
               THEN char_calls' = <<"load">> /\ pc' = "char_returned"
               ELSE char_calls' = <<>> /\ pc' = "error"
            /\ UNCHANGED <<vocabulary, chars, config_file, weights_file>>
       ELSE LET words == Shrink(vocabulary, embeddings_rows)
            IN  /\ vocabulary' = words
                /\ IF BuildRaises(Len(words), embeddings_rows)
                   THEN /\ char_calls' = <<"shrink", "build">>
                        /\ pc' = "error"
                        /\ UNCHANGED <<chars, config_file, weights_file>>
                   ELSE IF PrepareWordsRaises(words, max_word_length)
                   THEN /\ char_calls' = <<"shrink", "build", "prepare_words">>
                        /\ pc' = "error"
                        /\ UNCHANGED <<chars, config_file, weights_file>>
                   ELSE /\ chars' = PrepareWords(words, max_word_length)
                        /\ pc' = "char_returned"
                        /\ IF char_paths.config /\ char_paths.weights
                           THEN /\ char_calls' = <<"shrink", "build",
                                                   "prepare_words", "fit",
                                                   "save">>
                                /\ config_file' = Save(config_file)
                                /\ weights_file' = Save(weights_file)
                           ELSE /\ char_calls' = <<"shrink", "build",
                                                   "prepare_words", "fit">>
                                /\ UNCHANGED <<config_file, weights_file>>
    /\ UNCHANGED <<char_paths, embeddings_rows, max_word_length>>
    /\ UNCHANGED <<trainVars, predictVars, evaluateVars, inputVars>>


(***************************************************************************)
(* build and the input lists handed to the model (model.py, lines 62-140,  *)
(* 160-167, 231, 278).  A view is named by its tensor: "words",            *)
(* "grammemes", "chars".  train is given the build_config build was given. *)
(***************************************************************************)
BuildConfigs == [use_word_embeddings : BOOLEAN, use_gram : BOOLEAN,
                 use_chars : BOOLEAN]

View(flag, name) == IF flag THEN <<name>> ELSE <<>>

\* Line 72.
WordsBranch(config, given) == config.use_word_embeddings /\ given

\* Lines 69-106: the list inputs.  The words branch (lines 73-77) creates an
\* Input and appends its embedding to embeddings, but nothing to inputs.
BuildInputs(config) ==
    View(config.use_gram, "grammemes") \o View(config.use_chars, "chars")

\* Lines 70-106: the list embeddings.
BuildEmbeddings(config, given) ==
    View(WordsBranch(config, given), "words")
        \o View(config.use_gram, "grammemes")
        \o View(config.use_chars, "chars")

\* Line 74 reads word_embeddings.size.shape, which a numpy matrix does not
\* have (its size is an integer); were it there, Model(inputs=inputs, ...)
\* (lines 132, 138) refuses a graph that hangs on the Input "words", which
\* inputs does not hold.  Line 111 raises IndexError for no embedding.
ModelBuildRaises(config, given) ==
    \/ WordsBranch(config, given)
    \/ BuildEmbeddings(config, given) = <<>>

\* Lines 62-140.  With use_chars, get_char_model (lines 96-103) may raise.
Build ==
    /\ pc = "build"
    /\ IF ModelBuildRaises(build_config, word_embeddings)
       THEN pc' = "error" /\ UNCHANGED model_inputs
       ELSE \/ /\ model_inputs' = BuildInputs(build_config)
               /\ pc' = "built"
            \/ /\ build_config.use_chars
               /\ pc' = "error"
               /\ UNCHANGED model_inputs
    /\ UNCHANGED <<build_config, word_embeddings, fed>>
    /\ UNCHANGED <<trainVars, predictVars, evaluateVars, charVars>>

\* Lines 160-166 of train.
FitInputs(config) ==
    View(config.use_word_embeddings, "words")
        \o View(config.use_gram, "grammemes")
        \o View(config.use_chars, "chars")

\* Line 231 of evaluate: self.model.predict([grammemes, chars], ...).
EvaluateInputs == <<"grammemes", "chars">>

\* Line 278 of predict_proba: self.model.predict([grammemes, chars]).
PredictProbaInputs == <<"grammemes", "chars">>

\* A call of the model with a list of tensors: Keras raises ValueError when
\* the list is not the list of inputs the model declares.
Feed(call, inputs) ==
    /\ Len(fed) < MaxCalls
    /\ fed' = Append(fed, [call |-> call, inputs |-> inputs])
    /\ pc' = IF inputs = model_inputs THEN "built" ELSE "error"
    /\ UNCHANGED <<build_config, word_embeddings, model_inputs>>
    /\ UNCHANGED <<trainVars, predictVars, evaluateVars, charVars>>

\* Line 167.
FeedFit ==
    /\ pc = "built"
    /\ Feed("fit", FitInputs(build_config))

\* Line 231.
FeedEvaluate ==
    /\ pc = "built"
    /\ Feed("evaluate", EvaluateInputs)

\* Line 278.
FeedPredictProba ==
    /\ pc = "built"
    /\ Feed("predict_proba", PredictProbaInputs)


(***************************************************************************)
(* Specifications: each entry point called on its own.                     *)
(***************************************************************************)
PredictIdle ==
    /\ sentences = <<>>
    /\ grammemes = <<>>
    /\ proba = <<>>
    /\ sentence_i = 0
    /\ probs_left = <<>>
    /\ grammeme_probs = <<>>
    /\ answer = <<>>
    /\ answers = <<>>

EvaluateIdle ==
    /\ y_batches = <<>>
    /\ batch_k = 0
    /\ predicted_y = <<>>
    /\ row_i = 0
    /\ word_count = 0
    /\ word_errors = 0
    /\ sentence_count = 0
    /\ sentence_errors = 0
    /\ scored = <<>>

CharIdle ==
    /\ char_paths = [config |-> FALSE, weights |-> FALSE]
    /\ config_file = <<>>
    /\ weights_file = <<>>
    /\ vocabulary = <<>>
    /\ embeddings_rows = 0
    /\ max_word_length = 0
    /\ char_calls = <<>>
    /\ chars = <<>>

InputsIdle ==
    /\ build_config = [use_word_embeddings |-> FALSE, use_gram |-> FALSE,
                       use_chars |-> FALSE]
    /\ word_embeddings = FALSE
    /\ model_inputs = <<>>
    /\ fed = <<>>

TrainIdle ==
    /\ corpus = <<>>
    /\ train_config = NoConfig
    /\ sample_counter = 0
    /\ train_idx = <<>>
    /\ val_idx = <<>>
    /\ big_epoch = 0
    /\ batch_generator = <<>>
    /\ epoch = 0
    /\ log = <<>>

InitTrain ==
    /\ pc = "train"
    /\ \E n \in 0..MaxSamples : corpus \in [1..n -> SentenceLengths]
    /\ train_config \in [epochs_num : 1..MaxEpochs,
                         dump_model_freq : DumpFreqs,
                         num_words_in_batch : TokenBudgets,
                         val_part : TrainValParts]
    /\ sample_counter = 0
    /\ train_idx = <<>>
    /\ val_idx = <<>>
    /\ big_epoch = 0
    /\ batch_generator = <<>>
    /\ epoch = 0
    /\ log = <<>>
    /\ PredictIdle
    /\ EvaluateIdle
    /\ CharIdle
    /\ InputsIdle

NextTrain ==
    \/ TrainSplit
    \/ TrainBigEpoch
    \/ TrainFit
    \/ TrainDump
    \/ TrainEvaluate
    \/ TrainReturn

SpecTrain == InitTrain /\ [][NextTrain]_vars

\* get_split(sample_counter, val_part) called directly.
InitSplit ==
    /\ pc = "get_split"
    /\ sample_counter \in 0..MaxSplitSamples
    /\ train_config \in {[NoConfig EXCEPT !.val_part = v] : v \in ValParts}
    /\ corpus = <<>>
    /\ train_idx = <<>>
    /\ val_idx = <<>>
    /\ big_epoch = 0
    /\ batch_generator = <<>>
    /\ epoch = 0
    /\ log = <<>>
    /\ PredictIdle
    /\ EvaluateIdle
    /\ CharIdle
    /\ InputsIdle

GetSplitCall ==
    /\ pc = "get_split"
    /\ GetSplit(sample_counter, train_config.val_part, train_idx', val_idx')
    /\ pc' = "split_returned"
    /\ UNCHANGED <<corpus, train_config, sample_counter, big_epoch,
                   batch_generator, epoch, log, predictVars,
                   evaluateVars, charVars, inputVars>>

NextSplit == GetSplitCall

SpecSplit == InitSplit /\ [][NextSplit]_vars


\* predict_proba(sentences) called directly.
InitPredictProba ==
    /\ pc = "predict_proba"
    /\ sentences \in SentenceBatches
    /\ grammemes = <<>>
    /\ proba = <<>>
    /\ sentence_i = 0
    /\ probs_left = <<>>
    /\ grammeme_probs = <<>>
    /\ answer = <<>>
    /\ answers = <<>>
    /\ TrainIdle
    /\ EvaluateIdle
    /\ CharIdle
    /\ InputsIdle

NextPredictProba == PredictProbaCall

SpecPredictProba == InitPredictProba /\ [][NextPredictProba]_vars

\* predict(sentences).
InitPredict ==
    /\ pc = "predict"
    /\ sentences \in SentenceBatches
    /\ grammemes = <<>>
    /\ proba = <<>>
    /\ sentence_i = 0
    /\ probs_left = <<>>
    /\ grammeme_probs = <<>>
    /\ answer = <<>>
    /\ answers = <<>>
    /\ TrainIdle
    /\ EvaluateIdle
    /\ CharIdle
    /\ InputsIdle

NextPredict ==
    \/ PredictCall
    \/ PredictSentence
    \/ PredictToken
    \/ PredictAppend
    \/ PredictReturn

SpecPredict == InitPredict /\ [][NextPredict]_vars

\* evaluate over the batches of a validation set.
InitEvaluate ==
    /\ pc = "evaluate"
    /\ y_batches \in GoldInputs
    /\ batch_k = 0
    /\ predicted_y = <<>>
    /\ row_i = 0
    /\ word_count = 0
    /\ word_errors = 0
    /\ sentence_count = 0
    /\ sentence_errors = 0
    /\ scored = <<>>
    /\ TrainIdle
    /\ PredictIdle
    /\ CharIdle
    /\ InputsIdle

NextEvaluate ==
    \/ EvaluateBatch
    \/ EvaluateSentence
    \/ EvaluateReport

SpecEvaluate == InitEvaluate /\ [][NextEvaluate]_vars

\* get_char_model with and without the files of an earlier run.
InitCharModel ==
    /\ pc = "get_char_model"
    /\ char_paths \in [config : BOOLEAN, weights : BOOLEAN]
    /\ config_file \in {<<>>} \cup {<<"old">> : b \in {TRUE} \cap {char_paths.config}}
    /\ weights_file \in {<<>>} \cup {<<"old">> : b \in {TRUE} \cap {char_paths.weights}}
    /\ vocabulary \in Vocabularies
    /\ embeddings_rows \in 1..MaxVocabulary
    /\ max_word_length \in 1..MaxWordLength
    /\ char_calls = <<>>
    /\ chars = <<>>
    /\ TrainIdle
    /\ PredictIdle
    /\ EvaluateIdle
    /\ InputsIdle

NextCharModel == GetCharModel

SpecCharModel == InitCharModel /\ [][NextCharModel]_vars


\* build, then calls of train, evaluate and predict_proba on the built model.
InitInputs ==
    /\ pc = "build"
    /\ build_config \in BuildConfigs
    /\ word_embeddings \in BOOLEAN
    /\ model_inputs = <<>>
    /\ fed = <<>>
    /\ TrainIdle
    /\ PredictIdle
    /\ EvaluateIdle
    /\ CharIdle

NextInputs ==
    \/ Build
    \/ FeedFit
    \/ FeedEvaluate
    \/ FeedPredictProba

SpecInputs == InitInputs /\ [][NextInputs]_vars


(***************************************************************************)
(* Claims about get_split and train.                                       *)
(***************************************************************************)
Events(op) == {k \in 1..Len(log) : log[k].op = op}

EventsOf(op, e) == {k \in Events(op) : log[k].big_epoch = e}

\* C3 (as claimed): get_split(n, v) returns two disjoint index sets without
\* repetition whose union is 0..n-1, of sizes floor(n*(1-v)) for train and
\* n - floor(n*(1-v)) for validation.
C3_SplitSizesAreExactFloor ==
    pc = "split_returned" =>
        LET n == sample_counter
            v == train_config.val_part
            size == (n * (v.den - v.num)) \div v.den
        IN  /\ Range(train_idx) \cap Range(val_idx) = {}
            /\ Range(train_idx) \cup Range(val_idx) = 0..(n - 1)
            /\ Len(train_idx) + Len(val_idx) = n
            /\ Len(train_idx) = size
            /\ Len(val_idx) = n - size

\* Big epoch e is over: the next one has begun, or train has returned.
BigEpochOver(e) ==
    \/ EventsOf("BatchGenerator", e + 1) # {}
    \/ pc = "done" /\ e < big_epoch

\* C6 (as claimed): in every big epoch a checkpoint save occurs after the
\* epoch's last training batch and before the next big epoch starts or train
\* returns, whatever the number of batches.  Stated for the big epochs that
\* trained at least one batch.
C6_SaveAtEndOfEveryBigEpoch ==
    \A e \in 0..MaxEpochs :
        BigEpochOver(e) /\ EventsOf("fit", e) # {} =>
            \E k \in EventsOf("save", e) : \A j \in EventsOf("fit", e) : j < k

\* fit calls since the most recent save, or since train began.
FitsSinceSave ==
    Cardinality({k \in Events("fit") : \A j \in Events("save") : j < k})

\* C7 (as claimed): at every point of the training run the number of fit
\* calls since the most recent checkpoint save (or since the start) is at
\* most dump_model_freq.  Stated for the points between two iterations of
\* the batch loop, where the dump check of the last batch has been made.
C7_SaveEveryDumpModelFreqBatches ==
    pc \in {"batch", "big_epoch", "done"} =>
        FitsSinceSave <= train_config.dump_model_freq

\* C8: the split is computed once, before the first big epoch; every training
\* generator is built over that train_idx and every evaluate call uses that
\* val_idx; within a big epoch the generator comes first, the fit calls
\* follow and the single evaluate call is last, before anything of the next
\* big epoch; no validation index reaches a training generator or batch.
C8_TrainOrdersSplitFitEvaluate ==
    /\ pc \notin {"train", "get_split", "split_returned"} =>
           /\ Events("get_split") = {1}
           /\ Len(train_idx) + Len(val_idx) = sample_counter
    /\ \A k \in Events("BatchGenerator") :
           /\ log[k].indices = train_idx
           /\ Range(log[k].indices) \cap Range(val_idx) = {}
    /\ \A k \in Events("fit") :
           /\ Range(log[k].indices) \subseteq Range(train_idx)
           /\ Range(log[k].indices) \cap Range(val_idx) = {}
    /\ \A k \in Events("evaluate") : log[k].indices = val_idx
    /\ \A j, k \in 2..Len(log) :
           j < k => /\ log[j].big_epoch <= log[k].big_epoch
                    /\ log[j].big_epoch = log[k].big_epoch =>
                           /\ log[j].op # "evaluate"
                           /\ log[k].op # "BatchGenerator"
    /\ \A e \in 0..MaxEpochs :
           /\ Cardinality(EventsOf("evaluate", e)) <= 1
           /\ EventsOf("fit", e) # {} => EventsOf("BatchGenerator", e) # {}
           /\ BigEpochOver(e) => Cardinality(EventsOf("evaluate", e)) = 1
    /\ pc = "done" =>
           \A e \in 0..(train_config.epochs_num - 1) :
               Cardinality(EventsOf("evaluate", e)) = 1

\* C8's case: train returned after two big epochs that both fitted batches and
\* evaluated on a non-empty validation set.
C8_Witness ==
    /\ pc = "done"
    /\ train_config.epochs_num = 2
    /\ val_idx # <<>>
    /\ Cardinality(EventsOf("fit", 0)) >= 2
    /\ EventsOf("fit", 1) # {}
    /\ Cardinality(Events("evaluate")) = 2

\* C9 (as claimed): every fit call gets a batch_size with
\* batch_size * max_sentence_length <= num_words_in_batch and batch_size >= 1,
\* also for a batch whose sentence is longer than the budget.
C9_FitBatchSizeWithinBudgetAndPositive ==
    \A k \in Events("fit") :
        log[k].max_sentence_length >= 1 =>
            /\ log[k].batch_size * log[k].max_sentence_length
                   <= train_config.num_words_in_batch
            /\ log[k].batch_size >= 1

(***************************************************************************)
(* Claims about predict_proba and predict.                                 *)
(***************************************************************************)
\* C1 (as claimed): predict never returns 0 for a token: every value it
\* returns is a class index in 1..NumClasses, and it is the index of the
\* most probable class among the non-pad classes 1..NumClasses of the vector
\* it was decoded from.
C1_PredictReturnsNonPadArgMax ==
    /\ \A i \in 1..Len(answers) : \A j \in 1..Len(answers[i]) :
           answers[i][j] \in 1..NumClasses
    /\ (pc = "tokens" /\ answer # <<>>) =>
           LET num == answer[Len(answer)]
           IN  /\ num \in 1..NumClasses
               /\ \A c \in 1..NumClasses :
                      grammeme_probs[c + 1] <= grammeme_probs[num + 1]

\* C2 (as claimed): predict_proba returns for sentence i exactly
\* len(sentence i) vectors, the padding prefix being stripped, so that no
\* returned vector belongs to a pad position.
C2_PredictProbaStripsPadding ==
    pc = "proba_returned" =>
        \A i \in 1..Len(sentences) :
            /\ Len(proba[i]) = Len(sentences[i])
            /\ \A j \in 1..Len(proba[i]) : grammemes[i][proba[i][j]] # 0

\* C2 (amended): predict_proba returns for every sentence max_sentence_len
\* vectors, one per position of the left-padded row: the first
\* max_sentence_len - len(sentence i) of them belong to pad positions and
\* the last len(sentence i) to the words of the sentence, in order.
C2_PredictProbaReturnsPaddedRows ==
    pc = "proba_returned" =>
        LET L == max_sentence_len(sentences)
        IN  \A i \in 1..Len(sentences) :
                LET pad == L - Len(sentences[i])
                IN  /\ Len(proba[i]) = L
                    /\ \A j \in 1..L :
                           /\ proba[i][j] = j
                           /\ j <= pad => grammemes[i][proba[i][j]] = 0
                           /\ j > pad =>
                                  grammemes[i][proba[i][j]]
                                      = sentences[i][j - pad]

\* A batch of sentences of differing lengths for which predict_proba has
\* returned.
C2_Witness ==
    /\ pc = "proba_returned"
    /\ Len(sentences) = 2
    /\ Len(sentences[1]) = 1
    /\ Len(sentences[2]) = MaxSentenceLen
    /\ Len(proba[1]) = MaxSentenceLen


(***************************************************************************)
(* Claims about evaluate.                                                  *)
(***************************************************************************)
\* The length of the leading run of gold-0 positions.
LeadingZeros(sentence) ==
    Cardinality({j \in 1..Len(sentence) :
                    \A k \in 1..j : sentence[k] = 0})

ClaimedPositions(sentence) == (LeadingZeros(sentence) + 1)..Len(sentence)

ClaimedMismatches(s) ==
    {j \in ClaimedPositions(s.gold) : s.gold[j] # s.predicted[j]}

\* C4 (as claimed): evaluate leaves out of the score exactly the leading
\* run of gold-0 positions of each sentence: word_count is the number of
\* positions after that run, a later gold-0 position included, word_errors
\* the number of those positions whose arg-max differs from gold, and
\* sentence_errors the number of sentences with such a position.
C4_EvaluateSkipsExactlyLeadingZeros ==
    /\ sentence_count = Len(scored)
    /\ word_count = SeqSum([k \in 1..Len(scored) |->
                               Cardinality(ClaimedPositions(scored[k].gold))])
    /\ word_errors = SeqSum([k \in 1..Len(scored) |->
                                Cardinality(ClaimedMismatches(scored[k]))])
    /\ sentence_errors =
           Cardinality({k \in 1..Len(scored) :
                           ClaimedMismatches(scored[k]) # {}})


(***************************************************************************)
(* Claims about get_char_model and prepare_words.                          *)
(***************************************************************************)
Existed(file) == file # <<>> /\ Head(file) = "old"

Overwritten(file) == Existed(file) /\ Len(file) > 1

Called(name) == \E k \in 1..Len(char_calls) : char_calls[k] = name

\* C5 (as claimed): with both files present get_char_model loads and does
\* not build, train or save; with neither present it builds, trains and,
\* if both paths are given, saves; with exactly one of them present, the
\* config or the weights, it fails and neither trains nor overwrites a file.
C5_GetCharModelBranchesOnSavedPair ==
    /\ (pc = "char_returned" /\ Existed(config_file) /\ Existed(weights_file))
           => char_calls = <<"load">>
    /\ (pc = "char_returned" /\ ~Existed(config_file) /\ ~Existed(weights_file))
           => /\ Called("build")
              /\ Called("fit")
              /\ Called("save") <=> (char_paths.config /\ char_paths.weights)
    /\ (/\ pc # "get_char_model"
        /\ char_paths.config /\ char_paths.weights
        /\ Existed(config_file) # Existed(weights_file))
           => /\ pc = "error"
              /\ ~Called("fit")
              /\ ~Overwritten(config_file)
              /\ ~Overwritten(weights_file)

\* The row claimed for a word: its indices right-aligned after zeros, those
\* of its trailing max_word_length characters when it is longer.
ClaimedRow(word, mwl) ==
    LET k == Min(Len(word), mwl)
    IN  Zeros(mwl - k) \o
            [j \in 1..k |-> CharIndex(word[Len(word) - k + j])]

\* C10 (as claimed, for the calls of prepare_words that return):
\* prepare_words gives every word of the vocabulary a row of max_word_length
\* indices, the characters of the word right-aligned after zeros; a longer
\* word keeps its trailing max_word_length characters and an empty word
\* gets a row of zeros.
C10_PrepareWordsKeepsTrailingChars ==
    Called("fit") =>
        /\ Len(chars) = Len(vocabulary)
        /\ \A i \in 1..Len(chars) :
               chars[i] = ClaimedRow(vocabulary[i], max_word_length)

(***************************************************************************)
(* Claims about the inputs of the model.                                   *)
(***************************************************************************)
\* The enabled views, in the order words, grammemes, chars.
EnabledViews(config) ==
    View(config.use_word_embeddings, "words")
        \o View(config.use_gram, "grammemes")
        \o View(config.use_chars, "chars")

\* C11 (as claimed, for the models build returns): with word embeddings
\* supplied and at least one view enabled, the inputs the built model
\* declares, the inputs fed to fit in train and the inputs fed to
\* model.predict in evaluate and in predict_proba are the same list, namely
\* the enabled views in order.
C11_FedInputsAreTheDeclaredEnabledViews ==
    (word_embeddings /\ EnabledViews(build_config) # <<>>
                     /\ pc \in {"built", "error"} /\ model_inputs # <<>>) =>
        /\ model_inputs = EnabledViews(build_config)
        /\ \A k \in 1..Len(fed) : fed[k].inputs = model_inputs

=============================================================================
